---- MODULE Spec2Model ----
(***************************************************************************)
(* simplegrad: a scalar reverse-mode automatic-differentiation engine.     *)
(*                                                                         *)
(* The heap is the sequence of all Tensor objects ever constructed; a      *)
(* Tensor is named by its index in the heap (object identity).  A Tensor   *)
(* holds value, grad, _children and _backward, as in tensor.py.            *)
(*                                                                         *)
(* Numbers are exact rationals <<n, d>> in lowest terms with d > 0.  The   *)
(* operations are only taken on inputs whose results are dyadic and small  *)
(* (Exact), where IEEE double arithmetic is exact as well, so that the     *)
(* rational arithmetic below is the arithmetic of the Python floats.       *)
(***************************************************************************)
EXTENDS Integers, Sequences, FiniteSets, TLC

VARIABLES heap, pc, root, order, pos, fresh, runs, snap

vars == <<heap, pc, root, order, pos, fresh, runs, snap>>

(***************************************************************************)
(* Bounds of the model.                                                    *)
(***************************************************************************)
\* the number of Tensor objects of the free program
MaxNodes == 4
\* the number of Tensor objects of the program that calls backward() again
MaxIdemNodes == 3
\* the number of backward() calls of one run of the program
MaxRuns == 2
\* the largest numerator of a value an operation may produce
MaxMag == 12

(***************************************************************************)
(* Exact rational arithmetic.                                              *)
(***************************************************************************)
Abs(i) == IF i < 0 THEN -i ELSE i

RECURSIVE Gcd(_, _)
Gcd(a, b) == IF b = 0 THEN a ELSE Gcd(b, a % b)

\* the rational n/d (d # 0) in lowest terms, with a positive denominator
Q(n, d) ==
    LET g == Gcd(Abs(n), Abs(d))
        s == IF d < 0 THEN -1 ELSE 1
    IN  <<(s * n) \div g, (s * d) \div g>>

Num(i) == <<i, 1>>
Zero == Num(0)
One == Num(1)
Half == Q(1, 2)

RAdd(x, y) == Q(x[1] * y[2] + y[1] * x[2], x[2] * y[2])
RMul(x, y) == Q(x[1] * y[1], x[2] * y[2])
RSub(x, y) == RAdd(x, RMul(Num(-1), y))
RDiv(x, y) == Q(x[1] * y[2], x[2] * y[1])

RECURSIVE RPowNat(_, _)
RPowNat(x, p) == IF p = 0 THEN One ELSE RMul(x, RPowNat(x, p - 1))

\* x ** p for an integer p; 0 ** p raises ZeroDivisionError for p < 0
PowDefined(x, p) == p >= 0 \/ x[1] # 0
RPow(x, p) == IF p >= 0 THEN RPowNat(x, p) ELSE RDiv(One, RPowNat(x, -p))

\* math.exp, on the one argument where its result is a rational
ExpDefined(x) == x = Zero
MathExp(x) == One

\* the values on which the model's arithmetic is that of the floats
Exact(x) == x[2] \in {1, 2, 4} /\ Abs(x[1]) <= MaxMag

(***************************************************************************)
(* Tensor.__init__ : a leaf.  made is a history field: how the Tensor was  *)
(* produced (the operation, its operands, its constant).                   *)
(***************************************************************************)
NoRule == [kind |-> "none", self |-> 0, operand |-> 0, out |-> 0, k |-> Zero]
Leaf == [kind |-> "leaf", self |-> 0, operand |-> 0, k |-> Zero]

Tensor(h, value) ==
    Append(h, [value |-> value, children |-> <<>>, grad |-> Zero,
               backward |-> NoRule, made |-> Leaf])

Handles(h) == 1..Len(h)
Children(h, n) == {h[n].children[i] : i \in 1..Len(h[n].children)}

\* a set of one or two Tensors in one of its iteration orders
SetOrder(a, b, flip) ==
    IF a = b THEN <<a>> ELSE IF flip THEN <<b, a>> ELSE <<a, b>>

(***************************************************************************)
(* The construction operations.  Each appends the new Tensor out to the    *)
(* heap, wires its _children, and stores the closure _backward (a record   *)
(* of the variables the closure captures).  flip picks the iteration order *)
(* of the new _children set, which Python derives from object addresses.   *)
(***************************************************************************)
\* self._backward = _backward
Bind(h, self, rule) == [h EXCEPT ![self].backward = rule]

\* out = Tensor(value); out._children.update({self, operand})
Wire(h, value, self, operand, flip, kind, k) ==
    Append(h, [value |-> value, children |-> SetOrder(self, operand, flip),
               grad |-> Zero, backward |-> NoRule,
               made |-> [kind |-> kind, self |-> self, operand |-> operand, k |-> k]])

Closure(kind, self, operand, out, k) ==
    [kind |-> kind, self |-> self, operand |-> operand, out |-> out, k |-> k]

\* Tensor.__add__ with a Tensor operand
add(h, self, operand, flip) ==
    LET out == Len(h) + 1
        h1 == Wire(h, RAdd(h[self].value, h[operand].value), self, operand, flip, "add", Zero)
    IN  Bind(h1, self, Closure("add", self, operand, out, Zero))

\* Tensor.__add__ / __radd__ with a plain number, lifted into a leaf
add_num(h, self, c, flip) == add(Tensor(h, c), self, Len(h) + 1, flip)

\* Tensor.__mul__ with a Tensor operand
mul(h, self, operand, flip) ==
    LET out == Len(h) + 1
        h1 == Wire(h, RMul(h[self].value, h[operand].value), self, operand, flip, "mul", Zero)
    IN  Bind(h1, self, Closure("mul", self, operand, out, Zero))

\* Tensor.__mul__ / __rmul__ with a plain number, lifted into a leaf
mul_num(h, self, c, flip) == mul(Tensor(h, c), self, Len(h) + 1, flip)

\* Tensor.__neg__ : -1 * self, that is self.__rmul__(-1)
neg(h, self, flip) == mul_num(h, self, Num(-1), flip)

\* Tensor.__sub__ : self + (-operand)
sub(h, self, operand, flip1, flip2) ==
    LET h1 == neg(h, operand, flip1) IN add(h1, self, Len(h1), flip2)

\* Tensor.__pow__ : power is a plain number, kept in the closure
pow(h, self, power) ==
    LET out == Len(h) + 1
        h1 == Wire(h, RPow(h[self].value, power), self, self, FALSE, "pow", Num(power))
    IN  Bind(h1, self, Closure("pow", self, self, out, Num(power)))

\* Tensor.__truediv__ : self * operand**-1
truediv(h, self, operand, flip) ==
    LET h1 == pow(h, operand, -1) IN mul(h1, self, Len(h1), flip)

\* Tensor.exp : the closure keeps the local variable value
exp(h, self) ==
    LET out == Len(h) + 1
        value == MathExp(h[self].value)
        h1 == Wire(h, value, self, self, FALSE, "exp", value)
    IN  Bind(h1, self, Closure("exp", self, self, out, value))

\* the value Tensor.tanh computes: (e^(2x) - 1) / (e^(2x) + 1)
TanhDefined(x) == ExpDefined(RMul(Num(2), x))
TanhValue(x) ==
    LET value == MathExp(RMul(Num(2), x)) IN RDiv(RSub(value, One), RAdd(value, One))

\* Tensor.tanh
tanh(h, self) ==
    LET out == Len(h) + 1
        value == TanhValue(h[self].value)
        h1 == Wire(h, value, self, self, FALSE, "tanh", value)
    IN  Bind(h1, self, Closure("tanh", self, self, out, value))

(***************************************************************************)
(* The closures _backward, run on the heap.  The two statements of a       *)
(* closure run in sequence: the second reads the heap the first wrote.     *)
(***************************************************************************)
AddGrad(h, n, x) == [h EXCEPT ![n].grad = RAdd(@, x)]

\* a closure that adds once per member of the operand set
AddBackwardPerChild(h, r) ==
    LET h1 == AddGrad(h, r.self, h[r.out].grad)
    IN  IF r.operand = r.self THEN h1 ELSE AddGrad(h1, r.operand, h1[r.out].grad)

AddBackward(h, r) ==
    LET h1 == AddGrad(h, r.self, h[r.out].grad)
    IN  AddGrad(h1, r.operand, h1[r.out].grad)

MulBackward(h, r) ==
    LET h1 == AddGrad(h, r.self, RMul(h[r.operand].value, h[r.out].grad))
    IN  AddGrad(h1, r.operand, RMul(h1[r.self].value, h1[r.out].grad))

PowBackward(h, r) ==
    AddGrad(h, r.self,
            RMul(RMul(r.k, RPow(h[r.self].value, r.k[1] - 1)), h[r.out].grad))

ExpBackward(h, r) == AddGrad(h, r.self, RMul(r.k, h[r.out].grad))

TanhBackward(h, r) ==
    AddGrad(h, r.self, RMul(RSub(One, RPow(r.k, 2)), h[r.out].grad))

\* a call that releases the closure once it has run
CallBackwardFreed(h, n) ==
    LET r == h[n].backward
        h1 == CASE r.kind = "none" -> h
                [] r.kind = "add" -> AddBackward(h, r)
                [] r.kind = "mul" -> MulBackward(h, r)
                [] r.kind = "pow" -> PowBackward(h, r)
                [] r.kind = "exp" -> ExpBackward(h, r)
                [] r.kind = "tanh" -> TanhBackward(h, r)
    IN  [h1 EXCEPT ![n].backward = NoRule]

\* node._backward()
CallBackward(h, n) ==
    LET r == h[n].backward
    IN  CASE r.kind = "none" -> h
          [] r.kind = "add" -> AddBackward(h, r)
          [] r.kind = "mul" -> MulBackward(h, r)
          [] r.kind = "pow" -> PowBackward(h, r)
          [] r.kind = "exp" -> ExpBackward(h, r)
          [] r.kind = "tanh" -> TanhBackward(h, r)

(***************************************************************************)
(* Tensor._topological_sort : depth-first, post-order, with a visited set. *)
(* st is the pair of the local variables [visited, topological_order].     *)
(***************************************************************************)
RECURSIVE SortNode(_, _, _), SortChildren(_, _, _, _)
\* a _sort that keeps no visited set
SortNodeRevisit(h, node, st) ==
    LET st2 == SortChildren(h, h[node].children, 1, st)
    IN  [st2 EXCEPT !.topological_order = Append(@, node)]

\* _sort(node)
SortNode(h, node, st) ==
    IF node \in st.visited
    THEN st
    ELSE LET st1 == [st EXCEPT !.visited = @ \cup {node}]
             st2 == SortChildren(h, h[node].children, 1, st1)
         IN  [st2 EXCEPT !.topological_order = Append(@, node)]

\* for child in node._children: _sort(child)
SortChildren(h, cs, i, st) ==
    IF i > Len(cs) THEN st
    ELSE SortChildren(h, cs, i + 1, SortNode(h, cs[i], st))

TopologicalSort(h, T) ==
    SortNode(h, T, [visited |-> {}, topological_order |-> <<>>]).topological_order

Reversed(s) == [i \in 1..Len(s) |-> s[Len(s) + 1 - i]]

(***************************************************************************)
(* nn.py reset_gradients : for p in ps: p.grad = 0.0                       *)
(***************************************************************************)
reset_gradients(h, ps) ==
    [n \in 1..Len(h) |-> IF n \in ps THEN [h[n] EXCEPT !.grad = Zero] ELSE h[n]]

Grads(h) == [n \in 1..Len(h) |-> h[n].grad]
AllZero(h) == \A n \in Handles(h) : h[n].grad = Zero
Leaves(h) == {n \in Handles(h) : h[n].children = <<>>}

(***************************************************************************)
(* The inputs of the programs.                                             *)
(***************************************************************************)
LeafValues == {Zero, Num(2)}
Numbers == {Num(-1), Half}
Powers == {-1, 2}

NoSnap == [root |-> 0, grads |-> <<>>]

Init ==
    /\ heap = <<>>
    /\ pc = "idle"
    /\ root = 0
    /\ order = <<>>
    /\ pos = 0
    /\ fresh = FALSE
    /\ runs = 0
    /\ snap = NoSnap

\* A construction: the heap grows to h. snap, the record of the last
\* backward() call, is about the graph as it was: it is dropped.
Construct(h) ==
    /\ pc = "idle"
    /\ \E g \in {h} :
        /\ \A n \in (Len(heap) + 1)..Len(g) : Exact(g[n].value)
        /\ heap' = g
    /\ snap' = NoSnap
    /\ UNCHANGED <<pc, root, order, pos, fresh, runs>>

\* k more Tensors may be constructed by a program of at most max Tensors
Room(k, max) == pc = "idle" /\ Len(heap) + k <= max

NewTensor(max) ==
    /\ Room(1, max)
    /\ \E v \in LeafValues : Construct(Tensor(heap, v))

Add(max) ==
    /\ Room(1, max)
    /\ \E a, b \in Handles(heap), flip \in BOOLEAN : Construct(add(heap, a, b, flip))

AddNum(max) ==
    /\ Room(2, max)
    /\ \E a \in Handles(heap), c \in Numbers, flip \in BOOLEAN :
            Construct(add_num(heap, a, c, flip))

Mul(max) ==
    /\ Room(1, max)
    /\ \E a, b \in Handles(heap), flip \in BOOLEAN : Construct(mul(heap, a, b, flip))

MulNum(max) ==
    /\ Room(2, max)
    /\ \E a \in Handles(heap), c \in Numbers, flip \in BOOLEAN :
            Construct(mul_num(heap, a, c, flip))

Neg(max) ==
    /\ Room(2, max)
    /\ \E a \in Handles(heap), flip \in BOOLEAN : Construct(neg(heap, a, flip))

Sub(max) ==
    /\ Room(3, max)
    /\ \E a, b \in Handles(heap), flip1, flip2 \in BOOLEAN :
            Construct(sub(heap, a, b, flip1, flip2))

Pow(max) ==
    /\ Room(1, max)
    /\ \E a \in Handles(heap), p \in Powers :
            /\ PowDefined(heap[a].value, p)
            /\ Construct(pow(heap, a, p))

TrueDiv(max) ==
    /\ Room(2, max)
    /\ \E a, b \in Handles(heap), flip \in BOOLEAN :
            /\ PowDefined(heap[b].value, -1)
            /\ Construct(truediv(heap, a, b, flip))

Exp(max) ==
    /\ Room(1, max)
    /\ \E a \in Handles(heap) :
            /\ ExpDefined(heap[a].value)
            /\ Construct(exp(heap, a))

Tanh(max) ==
    /\ Room(1, max)
    /\ \E a \in Handles(heap) :
            /\ TanhDefined(heap[a].value)
            /\ Construct(tanh(heap, a))

(***************************************************************************)
(* Tensor.backward, one step per statement / loop iteration.  order is the *)
(* list reversed(self._topological_sort()), pos the loop's position in it. *)
(* fresh records whether every grad was 0 when backward() was called.      *)
(***************************************************************************)
BackwardOn(T) ==
    /\ pc = "idle"
    /\ runs < MaxRuns
    /\ heap' = [heap EXCEPT ![T].grad = One]
    /\ order' = Reversed(TopologicalSort(heap, T))
    /\ pos' = 1
    /\ pc' = "backward"
    /\ root' = T
    /\ fresh' = AllZero(heap)
    /\ runs' = runs + 1
    /\ UNCHANGED snap

BackwardStart == \E T \in Handles(heap) : BackwardOn(T)

BackwardStep ==
    /\ pc = "backward"
    /\ pos <= Len(order)
    /\ heap' = CallBackward(heap, order[pos])
    /\ pos' = pos + 1
    /\ UNCHANGED <<pc, root, order, fresh, runs, snap>>

\* the loop is over: every _backward of the order has been called
Finished == pc = "backward" /\ pos > Len(order)

\* backward() returns; snap keeps the grads a call from all grads 0 ended with
BackwardReturn ==
    /\ Finished
    /\ pc' = "idle"
    /\ snap' = IF fresh THEN [root |-> root, grads |-> Grads(heap)] ELSE NoSnap
    /\ UNCHANGED <<heap, root, order, pos, fresh, runs>>

ResetOn(ps) ==
    /\ pc = "idle"
    /\ ~AllZero(heap)
    /\ heap' = reset_gradients(heap, ps)
    /\ UNCHANGED <<pc, root, order, pos, fresh, runs, snap>>

ResetGradients == \E ps \in {Handles(heap), Leaves(heap)} : ResetOn(ps)

(***************************************************************************)
(* The free program: any operations, backward() on any Tensor, resets.     *)
(***************************************************************************)
Next ==
    \/ NewTensor(MaxNodes)
    \/ Add(MaxNodes)
    \/ AddNum(MaxNodes)
    \/ Mul(MaxNodes)
    \/ MulNum(MaxNodes)
    \/ Neg(MaxNodes)
    \/ Sub(MaxNodes)
    \/ Pow(MaxNodes)
    \/ TrueDiv(MaxNodes)
    \/ Exp(MaxNodes)
    \/ Tanh(MaxNodes)
    \/ BackwardStart
    \/ BackwardStep
    \/ BackwardReturn
    \/ ResetGradients

Spec == Init /\ [][Next]_vars

(***************************************************************************)
(* The program that builds a graph and calls backward() once, on any of    *)
(* its Tensors: the topological order of every sub-graph.                  *)
(***************************************************************************)
FirstBackward == runs = 0 /\ BackwardStart

NextSort ==
    \/ NewTensor(MaxNodes)
    \/ Add(MaxNodes)
    \/ Mul(MaxNodes)
    \/ FirstBackward

SpecSort == Init /\ [][NextSort]_vars

(***************************************************************************)
(* The program that builds a graph, picks a Tensor T, and calls            *)
(* T.backward() again and again, resetting grads in between or not.        *)
(***************************************************************************)
BackwardAgain == \E T \in Handles(heap) : (runs = 0 \/ T = root) /\ BackwardOn(T)

NextIdem ==
    \/ runs = 0 /\ NewTensor(MaxIdemNodes)
    \/ runs = 0 /\ Add(MaxIdemNodes)
    \/ runs = 0 /\ AddNum(MaxIdemNodes)
    \/ runs = 0 /\ Mul(MaxIdemNodes)
    \/ runs = 0 /\ MulNum(MaxIdemNodes)
    \/ runs = 0 /\ Pow(MaxIdemNodes)
    \/ runs = 0 /\ Exp(MaxIdemNodes)
    \/ runs = 0 /\ Tanh(MaxIdemNodes)
    \/ BackwardAgain
    \/ BackwardStep
    \/ BackwardReturn
    \/ ResetGradients

SpecIdem == Init /\ [][NextIdem]_vars

(***************************************************************************)
(* Scripted programs.  The position in the script is the size of the heap. *)
(***************************************************************************)
ScriptValues == {Q(n, d) : n \in -3..3, d \in {1, 2}}

\* x = Tensor(v); y = x + x; y.backward()
FanOutBuild ==
    \/ Len(heap) = 0 /\ \E n \in -MaxMag..MaxMag, d \in {1, 2, 4} : Construct(Tensor(heap, Q(n, d)))
    \/ Len(heap) = 1 /\ \E flip \in BOOLEAN : Construct(add(heap, 1, 1, flip))

FanOutBackward == Len(heap) = 2 /\ runs = 0 /\ BackwardOn(2)

NextFanOut == FanOutBuild \/ FanOutBackward \/ BackwardStep \/ BackwardReturn

SpecFanOut == Init /\ [][NextFanOut]_vars

\* x = Tensor(v); y = x*x; z = x*x*x; w = y + z; w.backward()
\* x is 1, y is 2, x*x is 3, z is 4, w is 5
DiamondBuild ==
    \/ Len(heap) = 0 /\ \E v \in ScriptValues : Construct(Tensor(heap, v))
    \/ Len(heap) = 1 /\ \E flip \in BOOLEAN : Construct(mul(heap, 1, 1, flip))
    \/ Len(heap) = 2 /\ \E flip1, flip2 \in BOOLEAN :
            Construct(mul(mul(heap, 1, 1, flip1), 3, 1, flip2))
    \/ Len(heap) = 4 /\ \E flip \in BOOLEAN : Construct(add(heap, 2, 4, flip))

DiamondBackward == Len(heap) = 5 /\ runs = 0 /\ BackwardOn(5)

NextDiamond == DiamondBuild \/ DiamondBackward \/ BackwardStep \/ BackwardReturn

SpecDiamond == Init /\ [][NextDiamond]_vars

\* a = Tensor(u); b = Tensor(v); r = a - b; r.backward()
\* a is 1, b is 2, the lifted -1 is 3, -b is 4, r is 5
SubBuild ==
    \/ Len(heap) < 2 /\ \E v \in ScriptValues : Construct(Tensor(heap, v))
    \/ Len(heap) = 2 /\ \E flip1, flip2 \in BOOLEAN :
            Construct(sub(heap, 1, 2, flip1, flip2))

SubBackward == Len(heap) = 5 /\ runs = 0 /\ BackwardOn(5)

NextSub == SubBuild \/ SubBackward \/ BackwardStep \/ BackwardReturn

SpecSub == Init /\ [][NextSub]_vars

(***************************************************************************)
(* nn.py Neuron, with two inputs.  The weights are 1 and 2, the bias is 3. *)
(***************************************************************************)
Weights == {Half, Q(-1, 2)}
Inputs == {One}

\* Neuron.__init__(2): random.uniform(-1, 1) draws the weights
NeuronInit ==
    /\ Len(heap) = 0
    /\ \E w1, w2 \in Weights : Construct(Tensor(Tensor(Tensor(heap, w1), w2), Zero))

\* Neuron.__call__: sum([w * x ...]) + self.bias, then tanh.
\* sum starts from the int 0: 0 + p1 is p1.__radd__(0), which lifts the 0.
\* w1*x1 is 5, w2*x2 is 7, 0 + w1*x1 is 9, the sum is 10, out is 11, act is 12
NeuronOut(h, x1, x2, f1, f2, f3, f4, f5) ==
    LET h1 == mul_num(h, 1, x1, f1)
        h2 == mul_num(h1, 2, x2, f2)
        h3 == add_num(h2, 5, Zero, f3)
        h4 == add(h3, 9, 7, f4)
    IN  add(h4, 10, 3, f5)

NeuronCall ==
    /\ Len(heap) = 3
    /\ \E x1, x2 \in Inputs, f1, f2, f3, f4, f5 \in BOOLEAN :
        \E h \in {NeuronOut(heap, x1, x2, f1, f2, f3, f4, f5)} :
            /\ TanhDefined(h[11].value)
            /\ Construct(tanh(h, 11))

NeuronBackward == Len(heap) = 12 /\ runs = 0 /\ BackwardOn(12)

NextNeuron == NeuronInit \/ NeuronCall \/ NeuronBackward \/ BackwardStep \/ BackwardReturn

SpecNeuron == Init /\ [][NextNeuron]_vars

(***************************************************************************)
(* What the claims speak of.                                               *)
(***************************************************************************)
\* the Tensors reachable from T through operand edges (operands are older)
RECURSIVE Reach(_, _)
Reach(h, T) == {T} \cup UNION {Reach(h, c) : c \in Children(h, T)}

\* the list _topological_sort returned to the running backward()
Topo == Reversed(order)

\* the Tensors whose _backward the running backward() has already called
Called == {order[i] : i \in 1..(pos - 1)}

\* d m / d n along the operand edges of m alone, once per use of n
Partial(h, m, n) ==
    LET f == h[m].made
        l == IF f.self = n THEN 1 ELSE 0
        r == IF f.operand = n THEN 1 ELSE 0
    IN  CASE f.kind = "leaf" -> Zero
          [] f.kind = "add" -> Num(l + r)
          [] f.kind = "mul" ->
                RAdd(RMul(Num(l), h[f.operand].value), RMul(Num(r), h[f.self].value))
          [] f.kind = "pow" ->
                RMul(Num(l), RMul(f.k, RPow(h[f.self].value, f.k[1] - 1)))
          [] f.kind = "exp" -> RMul(Num(l), h[m].value)
          [] f.kind = "tanh" -> RMul(Num(l), RSub(One, RMul(h[m].value, h[m].value)))

RECURSIVE SumOver(_, _, _, _)
\* the derivative d T / d n: the chain rule summed over the consumers of n
RECURSIVE Derivative(_, _, _)
Derivative(h, T, n) ==
    IF n = T THEN One
    ELSE IF n > T THEN Zero
    ELSE SumOver(h, T, n, n + 1)

SumOver(h, T, n, m) ==
    IF m > T THEN Zero
    ELSE RAdd(IF n \in Children(h, m)
              THEN RMul(Derivative(h, T, m), Partial(h, m, n))
              ELSE Zero,
              SumOver(h, T, n, m + 1))

\* T, or a Tensor of its sub-graph, is an operand of a Tensor outside it
NonTerminal(h, T) ==
    \E m \in Handles(h) \ Reach(h, T) : Children(h, m) \cap Reach(h, T) # {}

\* h with the _children sets of the Tensors in S iterated the other way round
Reordered(h, S) ==
    [n \in 1..Len(h) |->
        IF n \in S THEN [h[n] EXCEPT !.children = Reversed(@)] ELSE h[n]]

RECURSIVE CallAll(_, _, _)
CallAll(h, ord, i) ==
    IF i > Len(ord) THEN h ELSE CallAll(CallBackward(h, ord[i]), ord, i + 1)

\* T.backward() run to its end from all grads 0
BackwardFromZero(h, T) ==
    LET h0 == reset_gradients(h, Handles(h))
    IN  CallAll([h0 EXCEPT ![T].grad = One], Reversed(TopologicalSort(h0, T)), 1)

(***************************************************************************)
(* The claims.                                                             *)
(***************************************************************************)
\* C1: diamond fan-in. After x, y = x*x, z = x*x*x, w = y + z and
\* w.backward() from all grads 0, x.grad = 2*x.value + 3*x.value**2.
C1_DiamondGrad ==
    (Finished /\ Len(heap) = 5) =>
        heap[1].grad = RAdd(RMul(Num(2), heap[1].value),
                            RMul(Num(3), RPow(heap[1].value, 2)))

\* C2: within one backward() call, once the _backward of a Tensor N has been
\* called, no later step of the call changes N.grad.
C2_NoLateContribution ==
    [][(pc = "backward" /\ pc' = "backward") =>
            \A n \in Called : heap'[n].grad = heap[n].grad]_vars

\* C3: a construction operation leaves every field of every Tensor that
\* existed before it unchanged (value, grad, _children, _backward).
C3_Pure ==
    [][Len(heap') > Len(heap) => \A n \in Handles(heap) : heap'[n] = heap[n]]_vars

\* C4: the list _topological_sort returns holds exactly the Tensors reachable
\* from T, each once, T last, and every operand before each of its consumers.
C4_TopologicalOrder ==
    pc = "backward" =>
        /\ {Topo[i] : i \in 1..Len(Topo)} = Reach(heap, root)
        /\ Len(Topo) = Cardinality(Reach(heap, root))
        /\ Topo[Len(Topo)] = root
        /\ \A i \in 1..Len(Topo) : \A c \in Children(heap, Topo[i]) :
                \E j \in 1..(i - 1) : Topo[j] = c

\* a diamond under the root: its two operands share an operand
C4_Witness ==
    /\ pc = "backward"
    /\ \E y, z \in Children(heap, root) :
        /\ y # z
        /\ Children(heap, y) \cap Children(heap, z) # {}
        /\ \E w \in Children(heap, z) : Len(heap[w].children) = 1

\* C5: backward() on a non-terminal Tensor T, from all grads 0, ends with
\* T.grad = 1 and with N.grad = dT/dN for every N reachable from T.
C5_NonTerminal ==
    (Finished /\ fresh /\ NonTerminal(heap, root)) =>
        /\ heap[root].grad = One
        /\ \A n \in Reach(heap, root) : heap[n].grad = Derivative(heap, root, n)

\* C6: T.backward(), then grad = 0.0 on every Tensor, then T.backward() again
\* ends with the grads the first call ended with.
C6_IdempotentReset ==
    (Finished /\ fresh /\ snap.root = root) => Grads(heap) = snap.grads

\* the second call has ended, on a graph where a grad other than T's is not 0
C6_Witness ==
    /\ Finished /\ fresh /\ snap.root = root
    /\ Len(heap) >= 3
    /\ \E n \in Handles(heap) \ {root} : heap[n].grad # Zero

\* C7: the neuron with weights [0.5, -0.5] and bias 0.0 on the inputs
\* [1.0, 1.0] has pre-activation 0.0 and output 0.0, and after backward() on
\* the output both weight grads are 1.0.
C7_Neuron ==
    (Len(heap) = 12 /\ heap[1].value = Half /\ heap[2].value = Q(-1, 2)
        /\ heap[4].value = One /\ heap[6].value = One) =>
        /\ heap[11].value = Zero
        /\ heap[12].value = Zero
        /\ Finished => (heap[1].grad = One /\ heap[2].grad = One)

\* C8: after x, y = x + x and y.backward() from all grads 0, x.grad = 2.
C8_FanOut == (Finished /\ Len(heap) = 2) => heap[1].grad = Num(2)

\* y.backward() has ended; the operand set of y holds x once
C8_Witness ==
    /\ Finished /\ Len(heap) = 2
    /\ heap[2].children = <<1>>
    /\ heap[1].value \notin {Zero, One}

\* C9: after r = a - b and r.backward() from all grads 0, a.grad = 1 and
\* b.grad = -1, whatever the iteration orders of the operand sets.
C9_SubGrad ==
    (Finished /\ Len(heap) = 5) => (heap[1].grad = One /\ heap[2].grad = Num(-1))

\* C10: the grads backward() ends with, from all grads 0, are those it ends
\* with under every other iteration order of the operand sets.
C10_Deterministic ==
    (Finished /\ fresh) =>
        \A S \in SUBSET Handles(heap) :
            Grads(BackwardFromZero(Reordered(heap, S), root)) = Grads(heap)
====
